---- MODULE Spec2Model ----
(***************************************************************************)
(* Model of the Solana Wallet Activity API: the RPC client                 *)
(* (app/services/solana.py), the two wallet endpoints                      *)
(* (app/routers/wallet.py) and the response schemas                        *)
(* (app/models/schemas.py).                                                *)
(*                                                                         *)
(* One request is processed at a time.  Every HTTP attempt of _call_rpc is *)
(* one step whose outcome the environment chooses; the code between two    *)
(* attempts is executed by the steps named after the client method that    *)
(* returns.                                                                *)
(***************************************************************************)
EXTENDS Integers, Sequences, FiniteSets, TLC

\* ------------------------------------------------------------------ bounds
\* max_retries is drawn from 0..MaxRetriesBound
MaxRetriesBound == 3
\* wallets whose entries are enumerated shape by shape hold at most MaxSigs
\* signatures; a history request fetches at most MaxSigs entries
MaxSigs == 2

\* --------------------------------------------------------- program constants
LAMPORTS_PER_SOL == 1000000000
MAX_TRANSACTION_LIMIT == 1000
DEFAULT_TRANSACTION_LIMIT == 10
\* the limit of the signature lookup that get_transaction_count issues
CountLimitOff == 2000
CountLimit == 1000
\* the limit of the signature lookup the summary issues for last_active
LastActiveLimitOff == 10
LastActiveLimit == 1

Min(a, b) == IF a < b THEN a ELSE b

\* ------------------------------------------------------------- JSON values
\* A JSON value as the code sees it: t is its class, n / s its payload.
\* "absent" stands for a key that the enclosing object does not have.
J(t, n, s) == [t |-> t, n |-> n, s |-> s]
JAbsent == J("absent", 0, "")
JNull == J("null", 0, "")
JInt(n) == J("int", n, "")
JStr(s) == J("str", 0, s)
JObj == J("obj", 1, "")
JEmptyObj == J("obj", 0, "")

\* dict.get(key) / dict.get(key, default): None or the default for a missing key
Get(v) == IF v.t = "absent" THEN JNull ELSE v
GetDefault(v, d) == IF v.t = "absent" THEN d ELSE v

\* Python truth value of a JSON value
Truthy(v) ==
    CASE v.t = "int" -> v.n # 0
      [] v.t = "bool" -> v.n # 0
      [] v.t = "str" -> v.s # ""
      [] v.t = "obj" -> v.n # 0
      [] OTHER -> FALSE

\* int(x) of the builtin: defined on integers only among the classes modelled
IntOk(v) == v.t = "int"

\* pydantic field checks of the response models
IsIntField(v) == v.t = "int"
IsStrField(v) == v.t = "str"

\* ------------------------------------------------------- address validation
base58_chars_typo ==
    {"1", "2", "3", "4", "5", "6", "8", "9",
     "A", "B", "C", "D", "E", "F", "G", "H", "J", "K", "L", "M", "N", "P",
     "Q", "R", "S", "T", "U", "V", "W", "X", "Y", "Z",
     "a", "b", "c", "d", "e", "f", "g", "h", "i", "j", "k", "m", "n", "o",
     "p", "q", "r", "s", "t", "u", "v", "w", "x", "y", "z"}
base58_chars ==
    {"1", "2", "3", "4", "5", "6", "7", "8", "9",
     "A", "B", "C", "D", "E", "F", "G", "H", "J", "K", "L", "M", "N", "P",
     "Q", "R", "S", "T", "U", "V", "W", "X", "Y", "Z",
     "a", "b", "c", "d", "e", "f", "g", "h", "i", "j", "k", "m", "n", "o",
     "p", "q", "r", "s", "t", "u", "v", "w", "x", "y", "z"}

\* the field validator of WalletSummary.address and TransactionList.address
validate_address(v) ==
    /\ Len(v) # 0
    /\ ~(Len(v) < 32 \/ Len(v) > 44)
    /\ \A i \in 1..Len(v) : v[i] \in base58_chars

\* the check at the head of both route handlers: TRUE when the 400 is raised
route_rejects_lower_only(a) == Len(a) = 0 \/ Len(a) < 32
route_rejects(a) == Len(a) = 0 \/ Len(a) < 32 \/ Len(a) > 44

\* ------------------------------------------------------------- converters
\* lamports / 10^9 rounded to 9 decimals, as whole SOL and billionths
lamports_to_sol(lamports) ==
    [sol |-> lamports \div LAMPORTS_PER_SOL, nano |-> lamports % LAMPORTS_PER_SOL]

\* proleptic Gregorian date of a day number counted from 1970-01-01
CivilFromDays(days) ==
    LET z == days + 719468
        era == z \div 146097
        doe == z - era * 146097
        yoe == (doe - doe \div 1460 + doe \div 36524 - doe \div 146096) \div 365
        doy == doe - (365 * yoe + yoe \div 4 - yoe \div 100)
        mp == (5 * doy + 2) \div 153
        d == doy - (153 * mp + 2) \div 5 + 1
        m == IF mp < 10 THEN mp + 3 ELSE mp - 9
        y == yoe + era * 400 + (IF m <= 2 THEN 1 ELSE 0)
    IN [year |-> y, month |-> m, day |-> d]

\* an Optional[datetime]: <<>> is None, <<dt>> a UTC datetime
NoneDT == <<>>
timestamp_to_datetime_naive(timestamp) ==
    IF timestamp.t = "null" THEN NoneDT
    ELSE LET local == timestamp.n + 3600
             date == CivilFromDays(local \div 86400)
             rem == local % 86400
         IN << [year |-> date.year, month |-> date.month, day |-> date.day,
                hour |-> rem \div 3600, minute |-> (rem % 3600) \div 60,
                second |-> rem % 60] >>
timestamp_to_datetime(timestamp) ==
    IF timestamp.t = "null" THEN NoneDT
    ELSE LET date == CivilFromDays(timestamp.n \div 86400)
             rem == timestamp.n % 86400
         IN << [year |-> date.year, month |-> date.month, day |-> date.day,
                hour |-> rem \div 3600, minute |-> (rem % 3600) \div 60,
                second |-> rem % 60] >>

\* ------------------------------------------------------------ environment
\* The wallet's history on chain: ledger_len signatures, most recent first.
\* The entries of a short history are enumerated by shape (ledger_head);
\* the entries of a long one are all well-formed.
BigHistories == {37, 999, 1000, 1001}

EntryKinds == {"ok", "no_time", "zero_time", "no_sig", "bad_slot", "non_obj"}

SigNames == <<"S1", "S2", "S3", "S4", "S5">>
SigName(i) == IF i <= Len(SigNames) THEN SigNames[i] ELSE "Sn"

\* a SignatureEntry of getSignaturesForAddress; obj = FALSE is an array
\* element that is not a JSON object
MkEntry(kind, i) ==
    [obj |-> kind # "non_obj",
     signature |-> IF kind = "no_sig" THEN JAbsent ELSE JStr(SigName(i)),
     blockTime |-> CASE kind = "no_time" -> JAbsent
                     [] kind = "zero_time" -> JInt(0)
                     [] OTHER -> JInt(1768000000),
     slot |-> IF kind = "bad_slot" THEN JNull ELSE JInt(i)]

\* replies of getBalance: null, {"value": v}, or a bare scalar
BalanceReplies ==
    {[t |-> "null", value |-> JNull],
     [t |-> "dict", value |-> JInt(1420000000)],
     [t |-> "dict", value |-> JAbsent],
     [t |-> "dict", value |-> JNull],
     [t |-> "scalar", value |-> JInt(5000)],
     [t |-> "scalar", value |-> JStr("abc")]}

\* replies of getTransaction: null, a non-object, or {"meta": ...}; meta is
\* missing, null, {}, a non-object or an object with fee and err
MkMeta(t, fee, err) == [t |-> t, fee |-> fee, err |-> err]
ErrValues == {JAbsent, JNull, JObj, JStr("AccountInUse"), JEmptyObj, JInt(0)}
MetaShapes ==
    {MkMeta("absent", JAbsent, JAbsent), MkMeta("null", JAbsent, JAbsent),
     MkMeta("empty", JAbsent, JAbsent),
     MkMeta("other", JAbsent, JAbsent), MkMeta("obj", JAbsent, JAbsent),
     MkMeta("obj", JNull, JAbsent)}
    \cup {MkMeta("obj", JInt(5000), e) : e \in ErrValues}
TransactionReplies ==
    {[t |-> "null", meta |-> MkMeta("absent", JAbsent, JAbsent)],
     [t |-> "other", meta |-> MkMeta("absent", JAbsent, JAbsent)]}
    \cup {[t |-> "obj", meta |-> m] : m \in MetaShapes}

\* ------------------------------------------------------------------ state
VARIABLES
    max_retries,      \* SolanaClient.max_retries
    ledger_len,       \* number of signatures in the wallet's history
    ledger_head,      \* shapes of the entries of a short history
    pc,               \* position of the request being processed
    endpoint,         \* "summary" or "history"
    address,          \* path parameter, a sequence of characters
    limit,            \* query parameter of the history endpoint
    caller,           \* client method that is inside _call_rpc
    method,           \* JSON-RPC method of the current _call_rpc
    rpc_limit,        \* limit parameter of the current call (0: none)
    rpc_signature,    \* signature parameter of the current call ("": none)
    retry_count,      \* local of _call_rpc
    attempts,         \* HTTP attempts the current call has made
    failures,         \* those that ended in a timeout or a request error
    rpc_errors,       \* those whose reply carried a JSON-RPC error field
    ret,              \* how the current _call_rpc ended
    result,           \* the result field it returned
    balance_lamports, \* locals of the route handlers
    signatures,
    tx_count,
    idx,              \* position of the for loop over signatures
    transactions,
    outcomes,         \* per signature entry: "kept", "skipped" or "crashed"
    calls,            \* the _call_rpc invocations of the request, in order
    response,         \* what the request answered
    stub,             \* the scripted RPC node of a test, if one is installed
    prev,             \* what the previous request against the stub answered
    counting,         \* whether the HTTP attempts of a request are totalled
    total_attempts,   \* HTTP attempts of the current request, when counting
    c_pc,             \* concurrent _call_rpc invocations: position of each,
    c_retry,          \* the retry_count cells they use,
    c_attempts,       \* HTTP attempts each has made,
    c_failures        \* those that ended in a timeout or a request error

cfgv == <<max_retries, ledger_len, ledger_head>>
rpcv == <<caller, method, rpc_limit, rpc_signature, retry_count, attempts, failures,
          rpc_errors, ret, result>>
locv == <<balance_lamports, signatures, tx_count, idx, transactions, outcomes>>
reqv == <<endpoint, address, limit>>
stubv == <<stub, prev>>
meterv == <<counting, total_attempts>>
concv == <<c_pc, c_retry, c_attempts, c_failures>>
extv == <<stubv, meterv, concv>>
vars == <<cfgv, pc, reqv, rpcv, locv, calls, response, extv>>

LedgerEntry(i) == IF i <= Len(ledger_head) THEN MkEntry(ledger_head[i], i) ELSE MkEntry("ok", i)

\* replies of getSignaturesForAddress from a node that honours limit: the
\* most recent entries, null for an unknown wallet, or a value of another type
SignatureReplies(lim) ==
    {[t |-> "list", items |-> [i \in 1..Min(ledger_len, lim) |-> LedgerEntry(i)]],
     [t |-> "other", items |-> <<>>]}
    \cup (IF ledger_len = 0 THEN {[t |-> "null", items |-> <<>>]} ELSE {})

Replies ==
    CASE method = "getBalance" -> BalanceReplies
      [] method = "getSignaturesForAddress" -> SignatureReplies(rpc_limit)
      [] OTHER -> TransactionReplies

\* A deterministic RPC stub: every request is answered, getBalance always
\* with stub.balance, getSignaturesForAddress with the wallet's most recent
\* entries, getTransaction with a successful transaction of fee 5000.
NoStub == [on |-> FALSE, balance |-> [t |-> "null", value |-> JNull]]
Stubs == {[on |-> TRUE, balance |-> b] : b \in BalanceReplies}
StubReply ==
    CASE method = "getBalance" -> stub.balance
      [] method = "getSignaturesForAddress" ->
           [t |-> "list", items |-> [i \in 1..Min(ledger_len, rpc_limit) |-> LedgerEntry(i)]]
      [] OTHER -> [t |-> "obj", meta |-> MkMeta("obj", JInt(5000), JNull)]

\* the result fields a successful attempt can carry
Answers == IF stub.on THEN {StubReply} ELSE Replies

\* ---------------------------------------------------------- RPC transport
NoRet == [kind |-> "none", msg |-> ""]
Return == [kind |-> "return", msg |-> ""]
Raise(k, m) == [kind |-> k, msg |-> m]
NoResult == [t |-> "null"]

Outcomes == {"ok", "rpc_error", "timeout", "request_error", "http_status"}
\* httpx.TimeoutException and the other httpx.RequestError
TransportFailures == {"timeout", "request_error"}

\* the condition of the while loop of _call_rpc
LoopCondAlways(rc) == TRUE
LoopCondOff(rc) == rc <= max_retries
LoopCond(rc) == rc < max_retries

\* one pass through the try block of _call_rpc whose HTTP attempt ended with
\* outcome o: the new retry_count and how the call ends, if it does
CallRpcStepRetryAll(o, rc) ==
    CASE o = "ok" -> [rc |-> rc, ret |-> Return]
      [] o = "http_status" -> [rc |-> rc, ret |-> Raise("HTTPStatusError", "non-2xx response")]
      [] OTHER ->
           [rc |-> rc + 1,
            ret |-> IF rc + 1 >= max_retries
                    THEN Raise("SolanaRPCError", "RPC request failed")
                    ELSE NoRet]
CallRpcStepNoReturn(o, rc) ==
    CASE o = "ok" ->
           [rc |-> rc + 1,
            ret |-> IF rc + 1 >= max_retries THEN Return ELSE NoRet]
      [] o = "rpc_error" -> [rc |-> rc, ret |-> Raise("SolanaRPCError", "RPC error: upstream")]
      [] o = "http_status" -> [rc |-> rc, ret |-> Raise("HTTPStatusError", "non-2xx response")]
      [] o = "timeout" ->
           [rc |-> rc + 1,
            ret |-> IF rc + 1 >= max_retries
                    THEN Raise("SolanaRPCError", "RPC request timed out")
                    ELSE NoRet]
      [] OTHER ->
           [rc |-> rc + 1,
            ret |-> IF rc + 1 >= max_retries
                    THEN Raise("SolanaRPCError", "RPC request failed")
                    ELSE NoRet]
CallRpcStep(o, rc) ==
    CASE o = "ok" -> [rc |-> rc, ret |-> Return]
      [] o = "rpc_error" -> [rc |-> rc, ret |-> Raise("SolanaRPCError", "RPC error: upstream")]
      [] o = "http_status" -> [rc |-> rc, ret |-> Raise("HTTPStatusError", "non-2xx response")]
      [] o = "timeout" ->
           [rc |-> rc + 1,
            ret |-> IF rc + 1 >= max_retries
                    THEN Raise("SolanaRPCError", "RPC request timed out")
                    ELSE NoRet]
      [] OTHER ->
           [rc |-> rc + 1,
            ret |-> IF rc + 1 >= max_retries
                    THEN Raise("SolanaRPCError", "RPC request failed")
                    ELSE NoRet]

\* the loop test after retry_count became rc without the call having ended
AtLoopTest(rc) ==
    IF LoopCond(rc)
    THEN pc' = "rpc_post" /\ ret' = NoRet
    ELSE pc' = "rpc_ret" /\ ret' = Raise("SolanaRPCError", "Max retries exceeded")

\* client method c enters _call_rpc(m, ...)
StartCall(c, m, lim, sig, log) ==
    /\ caller' = c
    /\ method' = m
    /\ rpc_limit' = lim
    /\ rpc_signature' = sig
    /\ retry_count' = 0
    /\ attempts' = 0
    /\ failures' = 0
    /\ rpc_errors' = 0
    /\ result' = NoResult
    /\ calls' = Append(log, [method |-> m, limit |-> lim, signature |-> sig])
    /\ AtLoopTest(0)

\* one HTTP attempt: client.post, raise_for_status, response.json
Post(o) ==
    /\ pc = "rpc_post"
    /\ attempts' = attempts + 1
    /\ failures' = failures + (IF o \in TransportFailures THEN 1 ELSE 0)
    /\ rpc_errors' = rpc_errors + (IF o = "rpc_error" THEN 1 ELSE 0)
    /\ LET step == CallRpcStep(o, retry_count)
       IN /\ retry_count' = step.rc
          /\ IF step.ret.kind = "none"
             THEN AtLoopTest(step.rc) /\ result' = result
             ELSE /\ pc' = "rpc_ret"
                  /\ ret' = step.ret
                  /\ IF o = "ok" THEN \E r \in Answers : result' = r
                     ELSE result' = result
    /\ total_attempts' = IF counting THEN total_attempts + 1 ELSE total_attempts
    /\ UNCHANGED <<cfgv, reqv, locv, calls, response, caller, method, rpc_limit, rpc_signature>>
    /\ UNCHANGED <<stubv, counting, concv>>

\* ---------------------------------------------------------- client methods
\* What a client method hands to the route handler once its _call_rpc ended
\* with r and result res: exc = "none" and a value, or the exception raised.
Value(v) == [exc |-> "none", msg |-> "", value |-> v]
Throw(k, m) == [exc |-> k, msg |-> m, value |-> 0]

\* except SolanaRPCError: raise / except Exception: raise SolanaRPCError(...)
ReraiseUnwrapped(r, m) == Throw(r.kind, r.msg)
Reraise(r, m) ==
    IF r.kind = "SolanaRPCError" THEN Throw("SolanaRPCError", r.msg)
    ELSE Throw("SolanaRPCError", m)

get_balance(r, res) ==
    IF r.kind # "return" THEN Reraise(r, "Failed to fetch balance")
    ELSE IF res.t = "null" THEN Value(0)
    ELSE LET v == IF res.t = "dict" THEN GetDefault(res.value, JInt(0)) ELSE res.value
         IN IF IntOk(v) THEN Value(v.n)
            ELSE Throw("SolanaRPCError", "Failed to fetch balance")

\* Python truth value of the result of a signature lookup
ListTruthy(res) == res.t = "other" \/ (res.t = "list" /\ Len(res.items) > 0)
EmptyList == [t |-> "list", items |-> <<>>]

get_signatures(r, res) ==
    IF r.kind # "return" THEN Reraise(r, "Failed to fetch signatures")
    ELSE Value(IF ListTruthy(res) THEN res ELSE EmptyList)

get_transaction_count(r, res) ==
    IF r.kind # "return" THEN Reraise(r, "Failed to fetch transaction count")
    ELSE IF ~ListTruthy(res) THEN Value(0)
    ELSE IF res.t = "list" THEN Value(Len(res.items))
    ELSE Throw("SolanaRPCError", "Failed to fetch transaction count")

get_transaction_details(r, res) ==
    IF r.kind # "return" THEN Reraise(r, "Failed to fetch transaction")
    ELSE Value(res)

\* ------------------------------------------------------------- responses
NoResponse == [status |-> 0, error |-> <<>>, summary |-> <<>>, list |-> <<>>]
ErrorResponse(st, prefix, m, n) ==
    [status |-> st, error |-> <<[prefix |-> prefix, msg |-> m, n |-> n]>>,
     summary |-> <<>>, list |-> <<>>]

InvalidAddress(a) ==
    ErrorResponse(400, "Invalid Solana address. Address must be 32-44 characters, got", "", Len(a))

\* the except clauses that close both route handlers
StatusOfAlways500(exc) == 500
StatusOf(exc) == IF exc = "SolanaRPCError" THEN 503 ELSE 500
HandlerError(exc, m) ==
    ErrorResponse(StatusOf(exc),
                  IF exc = "SolanaRPCError" THEN "Solana RPC error:" ELSE "Internal server error:",
                  m, 0)

\* WalletSummary(...) inside the try block of get_wallet_summary
WalletSummary(a, lamports, txc, last_act) ==
    IF validate_address(a)
    THEN [status |-> 200, error |-> <<>>, list |-> <<>>,
          summary |-> <<[address |-> a, balance |-> lamports_to_sol(lamports),
                         balance_lamports |-> lamports, tx_count |-> txc,
                         last_active |-> last_act]>>]
    ELSE HandlerError("ValidationError", "Invalid Solana address: contains non-base58 characters")

\* TransactionList(address=..., transactions=txs, count=len(txs)) inside the
\* try block of get_wallet_transactions
TransactionListOffByOne(a, txs) ==
    IF validate_address(a)
    THEN [status |-> 200, error |-> <<>>, summary |-> <<>>,
          list |-> <<[address |-> a, transactions |-> txs, count |-> Len(txs) + 1]>>]
    ELSE HandlerError("ValidationError", "Invalid Solana address: contains non-base58 characters")
TransactionList(a, txs) ==
    IF validate_address(a)
    THEN [status |-> 200, error |-> <<>>, summary |-> <<>>,
          list |-> <<[address |-> a, transactions |-> txs, count |-> Len(txs)]>>]
    ELSE HandlerError("ValidationError", "Invalid Solana address: contains non-base58 characters")

\* lines 57-73 of get_wallet_summary: last_active and the response
SummaryResponse(a, lamports, sigs, txc) ==
    IF sigs.t = "other" THEN HandlerError("TypeError", "object has no len()")
    ELSE IF Len(sigs.items) = 0 THEN WalletSummary(a, lamports, txc, NoneDT)
    ELSE IF ~sigs.items[1].obj THEN HandlerError("AttributeError", "object has no attribute 'get'")
    ELSE LET block_time == Get(sigs.items[1].blockTime)
         IN WalletSummary(a, lamports, txc,
                          IF Truthy(block_time) THEN timestamp_to_datetime(block_time)
                          ELSE NoneDT)

\* status = "failed" if err else "success"
TxStatus(err) == IF Truthy(err) THEN "failed" ELSE "success"

\* The body of the for loop after get_transaction_details came back with d:
\* <<>> when the entry is skipped, else the Transaction that is appended.
ProcessItemSkipsNoTime(sig_data, d) ==
    IF Get(sig_data.blockTime) = JNull THEN <<>>
    ELSE IF d.exc # "none" THEN <<>>
    ELSE IF d.value.t = "null" THEN <<>>
    ELSE IF d.value.t = "other" THEN <<>>
    ELSE IF d.value.meta.t = "other" THEN <<>>
    ELSE LET hasMeta == d.value.meta.t = "obj"
             fee == IF hasMeta THEN GetDefault(d.value.meta.fee, JInt(0)) ELSE JInt(0)
             err == IF hasMeta THEN Get(d.value.meta.err) ELSE JNull
             block_time_dt == timestamp_to_datetime(Get(sig_data.blockTime))
             slot == GetDefault(sig_data.slot, JInt(0))
         IN IF IsIntField(slot) /\ IsIntField(fee) /\ IsStrField(sig_data.signature)
            THEN <<[signature |-> sig_data.signature.s,
                    block_time |-> IF block_time_dt = NoneDT
                                   THEN timestamp_to_datetime(JInt(0))[1]
                                   ELSE block_time_dt[1],
                    slot |-> slot.n,
                    status |-> TxStatus(err),
                    fee |-> fee.n]>>
            ELSE <<>>
ProcessItem(sig_data, d) ==
    IF d.exc # "none" THEN <<>>
    ELSE IF d.value.t = "null" THEN <<>>
    ELSE IF d.value.t = "other" THEN <<>>
    ELSE IF d.value.meta.t = "other" THEN <<>>
    ELSE LET hasMeta == d.value.meta.t = "obj"
             fee == IF hasMeta THEN GetDefault(d.value.meta.fee, JInt(0)) ELSE JInt(0)
             err == IF hasMeta THEN Get(d.value.meta.err) ELSE JNull
             block_time_dt == timestamp_to_datetime(Get(sig_data.blockTime))
             slot == GetDefault(sig_data.slot, JInt(0))
         IN IF IsIntField(slot) /\ IsIntField(fee) /\ IsStrField(sig_data.signature)
            THEN <<[signature |-> sig_data.signature.s,
                    block_time |-> IF block_time_dt = NoneDT
                                   THEN timestamp_to_datetime(JInt(0))[1]
                                   ELSE block_time_dt[1],
                    slot |-> slot.n,
                    status |-> TxStatus(err),
                    fee |-> fee.n]>>
            ELSE <<>>

\* transactions.append(transaction)
AppendTxFront(txs, tx) == tx \o txs
AppendTx(txs, tx) == txs \o tx

\* ----------------------------------------------------------------- inputs
ExampleAddress ==
    <<"7", "x", "K", "X", "t", "g", "2", "C", "W", "8", "7", "d", "9", "7",
     "T", "X", "J", "S", "D", "p", "b", "D", "5", "j", "B", "k", "h", "e",
     "T", "q", "A", "8", "3", "T", "Z", "R", "u", "J", "o", "s", "g", "A",
     "s", "U">>

WithChar(a, p, c) == [i \in 1..Len(a) |-> IF i = p THEN c ELSE a[i]]

ShortAddress == SubSeq(ExampleAddress, 1, 32)
Addresses ==
    {ExampleAddress,
     <<>>, SubSeq(ExampleAddress, 1, 31), ExampleAddress \o <<"A">>,
     WithChar(SubSeq(ExampleAddress, 1, 31), 3, "O")}
    \cup {WithChar(ShortAddress, 1, "0"), WithChar(ExampleAddress, 44, "-")}

Limits == {1, DEFAULT_TRANSACTION_LIMIT}

\* ------------------------------------------------------------------- Init
RpcIdle ==
    /\ caller' = "none"
    /\ method' = ""
    /\ rpc_limit' = 0
    /\ rpc_signature' = ""
    /\ retry_count' = 0
    /\ attempts' = 0
    /\ failures' = 0
    /\ rpc_errors' = 0
    /\ ret' = NoRet
    /\ result' = NoResult

FreshLocals ==
    /\ balance_lamports' = 0
    /\ signatures' = EmptyList
    /\ tx_count' = 0
    /\ idx' = 0
    /\ transactions' = <<>>
    /\ outcomes' = <<>>

\* the concurrent invocations
Procs == {1, 2}
ConcIdle ==
    /\ c_pc = [p \in Procs |-> "idle"]
    /\ c_retry = [p \in Procs |-> 0]
    /\ c_attempts = [p \in Procs |-> 0]
    /\ c_failures = [p \in Procs |-> 0]

\* the previous request, before there was one
NoPrev == [endpoint |-> "none", address |-> <<>>, response |-> NoResponse, ncalls |-> 0]

\* the server has started and waits for its first request
InitServer ==
    /\ max_retries \in 0..MaxRetriesBound
    /\ ledger_len \in (0..MaxSigs) \cup BigHistories
    /\ ledger_head \in [1..(IF ledger_len <= MaxSigs THEN ledger_len ELSE 0) -> EntryKinds]
    /\ pc = "idle"
    /\ endpoint = "none"
    /\ address = <<>>
    /\ limit = 0
    /\ caller = "none"
    /\ method = ""
    /\ rpc_limit = 0
    /\ rpc_signature = ""
    /\ retry_count = 0
    /\ attempts = 0
    /\ failures = 0
    /\ rpc_errors = 0
    /\ ret = NoRet
    /\ result = NoResult
    /\ balance_lamports = 0
    /\ signatures = EmptyList
    /\ tx_count = 0
    /\ idx = 0
    /\ transactions = <<>>
    /\ outcomes = <<>>
    /\ calls = <<>>
    /\ response = NoResponse
    /\ prev = NoPrev
    /\ total_attempts = 0
    /\ ConcIdle

\* ... against a live node
Init ==
    /\ InitServer
    /\ stub = NoStub
    /\ counting = FALSE

\* ----------------------------------------------------- get_wallet_summary
Respond(r) == pc' = "done" /\ response' = r

\* GET /wallet/{address}/summary up to its first HTTP attempt
GetWalletSummary(a) ==
    /\ pc = "idle"
    /\ endpoint' = "summary"
    /\ address' = a
    /\ limit' = 0
    /\ FreshLocals
    /\ IF route_rejects(a)
       THEN Respond(InvalidAddress(a)) /\ RpcIdle /\ calls' = <<>>
       ELSE response' = NoResponse /\ StartCall("get_balance", "getBalance", 0, "", <<>>)
    /\ UNCHANGED cfgv
    /\ UNCHANGED extv

\* get_balance returns; the handler enters get_signatures(address, limit=1)
GetBalanceReturn ==
    /\ pc = "rpc_ret"
    /\ caller = "get_balance"
    /\ LET b == get_balance(ret, result)
       IN IF b.exc # "none"
          THEN /\ Respond(HandlerError(b.exc, b.msg))
               /\ RpcIdle
               /\ UNCHANGED <<calls, balance_lamports>>
          ELSE /\ balance_lamports' = b.value
               /\ response' = response
               /\ StartCall("get_signatures", "getSignaturesForAddress", LastActiveLimit, "", calls)
    /\ UNCHANGED <<cfgv, reqv, signatures, tx_count, idx, transactions, outcomes>>
    /\ UNCHANGED extv

\* get_signatures returns to get_wallet_summary, which enters
\* get_transaction_count
GetSignaturesReturnSummary ==
    /\ pc = "rpc_ret"
    /\ caller = "get_signatures"
    /\ endpoint = "summary"
    /\ LET g == get_signatures(ret, result)
       IN IF g.exc # "none"
          THEN /\ Respond(HandlerError(g.exc, g.msg))
               /\ RpcIdle
               /\ UNCHANGED <<calls, signatures>>
          ELSE /\ signatures' = g.value
               /\ response' = response
               /\ StartCall("get_transaction_count", "getSignaturesForAddress", CountLimit, "", calls)
    /\ UNCHANGED <<cfgv, reqv, balance_lamports, tx_count, idx, transactions, outcomes>>
    /\ UNCHANGED extv

\* get_transaction_count returns; the handler builds the summary
GetTransactionCountReturn ==
    /\ pc = "rpc_ret"
    /\ caller = "get_transaction_count"
    /\ LET c == get_transaction_count(ret, result)
       IN IF c.exc # "none"
          THEN Respond(HandlerError(c.exc, c.msg)) /\ tx_count' = tx_count
          ELSE /\ tx_count' = c.value
               /\ Respond(SummaryResponse(address, balance_lamports, signatures, c.value))
    /\ RpcIdle
    /\ UNCHANGED <<cfgv, reqv, calls, balance_lamports, signatures, idx, transactions, outcomes>>
    /\ UNCHANGED extv

\* ------------------------------------------------ get_wallet_transactions
\* GET /wallet/{address}/transactions?limit=lim up to its first HTTP attempt
GetWalletTransactions(a, lim) ==
    /\ pc = "idle"
    /\ Min(ledger_len, lim) <= MaxSigs
    /\ endpoint' = "history"
    /\ address' = a
    /\ limit' = lim
    /\ FreshLocals
    /\ IF route_rejects(a)
       THEN Respond(InvalidAddress(a)) /\ RpcIdle /\ calls' = <<>>
       ELSE response' = NoResponse
            /\ StartCall("get_signatures", "getSignaturesForAddress", lim, "", <<>>)
    /\ UNCHANGED cfgv
    /\ UNCHANGED extv

\* get_signatures returns to get_wallet_transactions: the early return for
\* no signatures, or the entry of the for loop
GetSignaturesReturnHistory ==
    /\ pc = "rpc_ret"
    /\ caller = "get_signatures"
    /\ endpoint = "history"
    /\ LET g == get_signatures(ret, result)
       IN IF g.exc # "none"
          THEN Respond(HandlerError(g.exc, g.msg)) /\ UNCHANGED <<signatures, idx>>
          ELSE /\ signatures' = g.value
               /\ IF ~ListTruthy(g.value)
                  THEN Respond(TransactionList(address, <<>>)) /\ idx' = idx
                  ELSE IF g.value.t = "other"
                  THEN Respond(HandlerError("TypeError", "object is not iterable")) /\ idx' = idx
                  ELSE pc' = "hist_loop" /\ idx' = 1 /\ response' = response
    /\ RpcIdle
    /\ UNCHANGED <<cfgv, reqv, calls, balance_lamports, tx_count, transactions, outcomes>>
    /\ UNCHANGED extv

\* one iteration of the for loop up to get_transaction_details
ForSigData ==
    /\ pc = "hist_loop"
    /\ idx <= Len(signatures.items)
    /\ LET sig_data == signatures.items[idx]
       IN IF ~sig_data.obj
          THEN \* sig_data.get raises, and raises again inside the except clause
               /\ outcomes' = Append(outcomes, "crashed")
               /\ Respond(HandlerError("AttributeError", "object has no attribute 'get'"))
               /\ UNCHANGED <<rpcv, calls, idx>>
          ELSE IF ~Truthy(Get(sig_data.signature))
          THEN /\ outcomes' = Append(outcomes, "skipped")
               /\ idx' = idx + 1
               /\ UNCHANGED <<pc, response, rpcv, calls>>
          ELSE /\ StartCall("get_transaction_details", "getTransaction", 0,
                            sig_data.signature.s, calls)
               /\ UNCHANGED <<outcomes, idx, response>>
    /\ UNCHANGED <<cfgv, reqv, balance_lamports, signatures, tx_count, transactions>>
    /\ UNCHANGED extv

\* get_transaction_details returns: the rest of the loop body
GetTransactionDetailsReturn ==
    /\ pc = "rpc_ret"
    /\ caller = "get_transaction_details"
    /\ LET tx == ProcessItem(signatures.items[idx], get_transaction_details(ret, result))
       IN /\ transactions' = AppendTx(transactions, tx)
          /\ outcomes' = Append(outcomes, IF tx = <<>> THEN "skipped" ELSE "kept")
    /\ idx' = idx + 1
    /\ pc' = "hist_loop"
    /\ RpcIdle
    /\ UNCHANGED <<cfgv, reqv, calls, response, balance_lamports, signatures, tx_count>>
    /\ UNCHANGED extv

\* the loop is exhausted: return TransactionList(...)
ReturnTransactionList ==
    /\ pc = "hist_loop"
    /\ idx > Len(signatures.items)
    /\ Respond(TransactionList(address, transactions))
    /\ UNCHANGED <<cfgv, reqv, rpcv, locv, calls>>
    /\ UNCHANGED extv

\* the response is sent; the server waits for the next request
FinishSpendsRetry ==
    /\ pc = "done"
    /\ pc' = "idle"
    /\ endpoint' = "none"
    /\ address' = <<>>
    /\ limit' = 0
    /\ FreshLocals
    /\ RpcIdle
    /\ calls' = <<>>
    /\ response' = NoResponse
    /\ prev' = IF stub.on /\ ~counting
               THEN [endpoint |-> endpoint, address |-> address,
                     response |-> response, ncalls |-> Len(calls)]
               ELSE prev
    /\ total_attempts' = 0
    /\ max_retries' = IF max_retries > 0 THEN max_retries - 1 ELSE 0
    /\ UNCHANGED <<ledger_len, ledger_head, stub, counting, concv>>
Finish ==
    /\ pc = "done"
    /\ pc' = "idle"
    /\ endpoint' = "none"
    /\ address' = <<>>
    /\ limit' = 0
    /\ FreshLocals
    /\ RpcIdle
    /\ calls' = <<>>
    /\ response' = NoResponse
    /\ prev' = IF stub.on /\ ~counting
               THEN [endpoint |-> endpoint, address |-> address,
                     response |-> response, ncalls |-> Len(calls)]
               ELSE prev
    /\ total_attempts' = 0
    /\ UNCHANGED <<cfgv, stub, counting, concv>>

\* ------------------------------------------------------------------- Next
Summary == \E a \in Addresses : GetWalletSummary(a)
History == \E a \in Addresses, lim \in Limits : GetWalletTransactions(a, lim)
PostOk == Post("ok")
PostRpcError == Post("rpc_error")
PostTimeout == Post("timeout")
PostRequestError == Post("request_error")
PostHttpStatus == Post("http_status")

Next ==
    \/ Summary
    \/ History
    \/ PostOk
    \/ PostRpcError
    \/ PostTimeout
    \/ PostRequestError
    \/ PostHttpStatus
    \/ GetBalanceReturn
    \/ GetSignaturesReturnSummary
    \/ GetTransactionCountReturn
    \/ GetSignaturesReturnHistory
    \/ ForSigData
    \/ GetTransactionDetailsReturn
    \/ ReturnTransactionList
    \/ Finish

Spec == Init /\ [][Next]_vars

\* ------------------------------------------- summaries against the stub
StubAddresses == {ExampleAddress, WithChar(ShortAddress, 1, "0")}
InitStub ==
    /\ InitServer
    /\ stub \in Stubs
    /\ counting = FALSE

SummaryStub == \E a \in StubAddresses : GetWalletSummary(a)

NextStub ==
    \/ SummaryStub
    \/ PostOk
    \/ GetBalanceReturn
    \/ GetSignaturesReturnSummary
    \/ GetTransactionCountReturn
    \/ Finish

SpecStub == InitStub /\ [][NextStub]_vars

\* ------------------------------- history requests with attempts totalled
\* The node answers every request that reaches it in one way; the
\* transport in front of it fails as it likes. Entries are well-formed,
\* lack their signature, or are not objects.
CountedStub == [on |-> TRUE, balance |-> [t |-> "dict", value |-> JInt(1420000000)]]
CountedKinds == {"ok", "no_sig", "non_obj"}
InitCounted ==
    /\ InitServer
    /\ \A i \in DOMAIN ledger_head : ledger_head[i] \in CountedKinds
    /\ stub = CountedStub
    /\ counting = TRUE

HistoryCounted == \E lim \in Limits : GetWalletTransactions(ExampleAddress, lim)

NextCounted ==
    \/ HistoryCounted
    \/ PostOk
    \/ PostRpcError
    \/ PostTimeout
    \/ PostRequestError
    \/ PostHttpStatus
    \/ GetSignaturesReturnHistory
    \/ ForSigData
    \/ GetTransactionDetailsReturn
    \/ ReturnTransactionList
    \/ Finish

\* what the server does on its own: every HTTP attempt ends (with a reply,
\* an error or the timeout of the client) and every handler step is taken
Serve ==
    \/ \E o \in Outcomes : Post(o)
    \/ GetSignaturesReturnHistory
    \/ ForSigData
    \/ GetTransactionDetailsReturn
    \/ ReturnTransactionList

SpecCounted == InitCounted /\ [][NextCounted]_vars /\ WF_vars(Serve)

\* ------------------------------- concurrent invocations of _call_rpc
\* Requests are coroutines on the one global solana_client; each of their
\* _call_rpc invocations runs up to an await and may be overtaken there.
\* The retry_count of invocation p is a local of its own frame.
RetryCellShared(p) == 1
RetryCell(p) == p

ConcUnchanged == UNCHANGED <<cfgv, pc, reqv, rpcv, locv, calls, response, stubv, meterv>>

\* where invocation p goes after its retry_count became rc
ConcLoopTest(rc) == IF LoopCond(rc) THEN "post" ELSE "raised"

\* retry_count = 0 and the first loop test
ConcStart(p) ==
    /\ c_pc[p] = "idle"
    /\ c_retry' = [c_retry EXCEPT ![RetryCell(p)] = 0]
    /\ c_attempts' = [c_attempts EXCEPT ![p] = 0]
    /\ c_failures' = [c_failures EXCEPT ![p] = 0]
    /\ c_pc' = [c_pc EXCEPT ![p] = ConcLoopTest(0)]
    /\ ConcUnchanged

\* one HTTP attempt of invocation p with outcome o
ConcPost(p, o) ==
    /\ c_pc[p] = "post"
    /\ LET step == CallRpcStep(o, c_retry[RetryCell(p)])
       IN /\ c_retry' = [c_retry EXCEPT ![RetryCell(p)] = step.rc]
          /\ c_pc' = [c_pc EXCEPT ![p] =
                         CASE step.ret.kind = "none" -> ConcLoopTest(step.rc)
                           [] step.ret.kind = "return" -> "returned"
                           [] OTHER -> "raised"]
    /\ c_attempts' = [c_attempts EXCEPT ![p] = @ + 1]
    /\ c_failures' = [c_failures EXCEPT ![p] = @ + (IF o \in TransportFailures THEN 1 ELSE 0)]
    /\ ConcUnchanged

\* the invocation has ended and its frame is gone
ConcEnd(p) ==
    /\ c_pc[p] \in {"returned", "raised"}
    /\ c_pc' = [c_pc EXCEPT ![p] = "idle"]
    /\ c_retry' = [c_retry EXCEPT ![RetryCell(p)] = 0]
    /\ c_attempts' = [c_attempts EXCEPT ![p] = 0]
    /\ c_failures' = [c_failures EXCEPT ![p] = 0]
    /\ ConcUnchanged

InitConc ==
    /\ InitServer
    /\ ledger_len = 0
    /\ stub = NoStub
    /\ counting = FALSE

ConcStarts == \E p \in Procs : ConcStart(p)
ConcPosts == \E p \in Procs, o \in Outcomes : ConcPost(p, o)
ConcEnds == \E p \in Procs : ConcEnd(p)

NextConc ==
    \/ ConcStarts
    \/ ConcPosts
    \/ ConcEnds

SpecConc == InitConc /\ [][NextConc]_vars

\* ================================================================= claims
InCall == pc \in {"rpc_post", "rpc_ret"}
AllFailed == failures = attempts

\* C1: a _call_rpc whose HTTP attempts all fail with a timeout or a request
\* error makes exactly max_retries attempts, never one more, and then ends
\* with a SolanaRPCError; it never returns a result.
C1_ExactlyMaxRetriesAttempts ==
    (InCall /\ AllFailed) =>
        /\ attempts <= max_retries
        /\ (pc = "rpc_post" => attempts < max_retries)
        /\ (pc = "rpc_ret" => attempts = max_retries /\ ret.kind = "SolanaRPCError")

C1_Witness ==
    /\ pc = "rpc_ret"
    /\ max_retries >= 2
    /\ attempts = max_retries
    /\ failures = attempts
    /\ ret = Raise("SolanaRPCError", "RPC request failed")

\* C2: an attempt whose reply carries a JSON-RPC error field ends the call
\* at once with a SolanaRPCError: it is the last attempt of the call,
\* whatever retries remain and whatever attempts timed out before it.
C2_RpcErrorNotRetried ==
    (InCall /\ rpc_errors > 0) =>
        /\ pc = "rpc_ret"
        /\ ret.kind = "SolanaRPCError"
        /\ rpc_errors = 1
        /\ attempts = failures + 1

C2_Witness ==
    /\ pc = "rpc_ret"
    /\ rpc_errors = 1
    /\ failures >= 1
    /\ attempts = failures + 1
    /\ retry_count < max_retries
    /\ ret.kind = "SolanaRPCError"

\* the entries of the signature list that did not end up in the response
Failed == {i \in 1..Len(outcomes) : outcomes[i] # "kept"}
Kept == {i \in 1..Len(outcomes) : outcomes[i] = "kept"}

\* C3: a history request whose list call returned N >= 1 entries succeeds,
\* has gone through all N entries, and returns the N-k entries whose fetch
\* and processing did not fail, with count = N-k.
C3_PerItemIsolation ==
    (pc = "done" /\ endpoint = "history" /\ Len(signatures.items) >= 1) =>
        /\ response.status = 200
        /\ Len(outcomes) = Len(signatures.items)
        /\ response.list[1].count = Len(signatures.items) - Cardinality(Failed)

\* the alphabet of section 4.2: alphanumeric without 0, O, I and l
Digits == {"0", "1", "2", "3", "4", "5", "6", "7", "8", "9"}
Upper == {"A", "B", "C", "D", "E", "F", "G", "H", "I", "J", "K", "L", "M",
          "N", "O", "P", "Q", "R", "S", "T", "U", "V", "W", "X", "Y", "Z"}
Lower == {"a", "b", "c", "d", "e", "f", "g", "h", "i", "j", "k", "l", "m",
          "n", "o", "p", "q", "r", "s", "t", "u", "v", "w", "x", "y", "z"}
Alphabet58 == (Digits \cup Upper \cup Lower) \ {"0", "O", "I", "l"}
LengthInRange(a) == Len(a) >= 32 /\ Len(a) <= 44
ValidAddress(a) == LengthInRange(a) /\ \A i \in 1..Len(a) : a[i] \in Alphabet58

\* C4: a request for an address of length 32..44 that holds a character
\* outside the alphabet fails with a 4xx status and makes no RPC call.
C4_BadCharacterRejected ==
    (endpoint # "none" /\ LengthInRange(address) /\ ~ValidAddress(address)) =>
        /\ pc = "done"
        /\ response.status >= 400 /\ response.status <= 499
        /\ calls = <<>>

\* C5: a request for an address whose length is outside 32..44 fails with
\* status 400 and makes no RPC call, on either endpoint.
C5_BadLengthRejected ==
    (endpoint # "none" /\ ~LengthInRange(address)) =>
        /\ pc = "done"
        /\ response.status = 400
        /\ calls = <<>>
        /\ attempts = 0

C5_Witness ==
    /\ endpoint = "history"
    /\ Len(address) = 45
    /\ max_retries >= 1
    /\ response.status = 400

\* a transport call outside the per-item loop ended with a SolanaRPCError
TerminalOutsideLoop ==
    /\ pc = "rpc_ret"
    /\ caller \in {"get_balance", "get_signatures", "get_transaction_count"}
    /\ ret.kind = "SolanaRPCError"

\* an error that is not a SolanaRPCError is about to be raised outside the
\* loop: a signature result or entry of the wrong type, or a response model
\* that refuses the address
UnexpectedOutsideLoop ==
    \/ /\ pc = "rpc_ret" /\ caller = "get_transaction_count"
       /\ ret.kind = "return" /\ result.t # "other"
       /\ \/ signatures.t = "other"
          \/ (Len(signatures.items) > 0 /\ ~signatures.items[1].obj)
          \/ ~ValidAddress(address)
    \/ /\ pc = "rpc_ret" /\ caller = "get_signatures" /\ endpoint = "history"
       /\ ret.kind = "return"
       /\ \/ result.t = "other"
          \/ (~ValidAddress(address) /\ (result.t = "null" \/ Len(result.items) = 0))
    \/ /\ pc = "hist_loop" /\ idx > Len(signatures.items) /\ ~ValidAddress(address)

NoBody(r) == r.summary = <<>> /\ r.list = <<>>

\* C6: outside the per-item loop a terminal SolanaRPCError of a transport
\* call ends the request with status 503, any other error with status 500,
\* and neither response carries a summary or a transaction list.
C6_ErrorTranslation ==
    [][ /\ TerminalOutsideLoop =>
            (pc' = "done" /\ response'.status = 503 /\ NoBody(response'))
        /\ UnexpectedOutsideLoop =>
            (pc' = "done" /\ response'.status = 500 /\ NoBody(response')) ]_vars

C6_Witness ==
    /\ pc = "done"
    /\ endpoint = "summary"
    /\ Len(calls) = 3
    /\ response.status = 503
    /\ NoBody(response)

\* the status the claim assigns to a transaction detail d
NonNull(v) == v.t \notin {"absent", "null"}
ClaimedStatus(d) ==
    IF d.meta.t = "obj" /\ NonNull(d.meta.err) THEN "failed" ELSE "success"

\* C7: the record appended for a transaction detail has status "failed" when
\* meta.err is present and not null, and "success" otherwise.
C7_StatusFromErr ==
    [][ (pc = "rpc_ret" /\ caller = "get_transaction_details"
         /\ Len(transactions') = Len(transactions) + 1) =>
            transactions'[Len(transactions')].status = ClaimedStatus(result) ]_vars

\* C8: when the list call of a history request for a valid address returns
\* null or an empty list, the response is {address, [], 0} with status 200
\* and the list call is the only RPC call of the request.
C8_EmptyHistory ==
    [][ (/\ pc = "rpc_ret" /\ caller = "get_signatures" /\ endpoint = "history"
         /\ ret.kind = "return"
         /\ (result.t = "null" \/ (result.t = "list" /\ Len(result.items) = 0))
         /\ ValidAddress(address)) =>
            /\ pc' = "done"
            /\ response'.status = 200
            /\ response'.list = <<[address |-> address, transactions |-> <<>>, count |-> 0]>>
            /\ calls' = calls
            /\ Len(calls) = 1
            /\ calls[1].method = "getSignaturesForAddress" ]_vars

C8_Witness ==
    /\ pc = "done"
    /\ endpoint = "history"
    /\ ledger_len = 0
    /\ response.status = 200
    /\ response.list[1].count = 0
    /\ response.list[1].transactions = <<>>
    /\ Len(calls) = 1

\* C9: in a successful history response count is the length of transactions,
\* which is the number of entries that survived processing and is at most
\* the number of entries the list call returned, hence at most limit.
C9_CountIsLength ==
    (pc = "done" /\ endpoint = "history" /\ response.status = 200) =>
        /\ response.list[1].count = Len(response.list[1].transactions)
        /\ response.list[1].count = Cardinality(Kept)
        /\ response.list[1].count <= Len(signatures.items)
        /\ response.list[1].count <= limit

C9_Witness ==
    /\ pc = "done"
    /\ endpoint = "history"
    /\ response.status = 200
    /\ Len(signatures.items) = 2
    /\ response.list[1].count = 1
    /\ limit > 2

\* C10: the tx_count of a successful summary is the length of the list the
\* limit-1000 signature lookup returned: min(H, 1000) for a wallet with H
\* signatures, never more than 1000.
C10_TxCountCapped ==
    /\ [][ (pc = "rpc_ret" /\ caller = "get_transaction_count"
            /\ pc' = "done" /\ response'.status = 200) =>
               /\ rpc_limit = 1000
               /\ response'.summary[1].tx_count =
                      (IF result.t = "list" THEN Len(result.items) ELSE 0) ]_vars
    /\ [](( pc = "done" /\ endpoint = "summary" /\ response.status = 200) =>
               /\ response.summary[1].tx_count = Min(ledger_len, 1000)
               /\ response.summary[1].tx_count <= 1000)

C10_Witness ==
    /\ pc = "done"
    /\ endpoint = "summary"
    /\ response.status = 200
    /\ ledger_len = 1001
    /\ response.summary[1].tx_count = 1000

\* the call has made an attempt that was answered with a non-2xx status:
\* an attempt that neither failed in transport, nor carried an error field,
\* nor is the successful one the call returned on
Non2xxSeen ==
    /\ InCall
    /\ attempts > failures + rpc_errors + (IF ret.kind = "return" THEN 1 ELSE 0)

\* C11: a non-2xx HTTP response is retried like a timeout or a connection
\* error: a call that saw one ends in an error only once max_retries
\* attempts have been made, and then with the terminal SolanaRPCError.
C11_Non2xxRetried ==
    (Non2xxSeen /\ pc = "rpc_ret" /\ ret.kind # "return") =>
        /\ attempts = max_retries
        /\ ret.kind = "SolanaRPCError"

\* C12: the body of a 500 response is generic: it carries nothing of the
\* internal exception's message, so that two requests failing with
\* different internal errors receive the same 500 body.
C12_Generic500Body ==
    (pc = "done" /\ response.status = 500) =>
        /\ response.error[1].msg = ""
        /\ response.error[1].n = 0

\* txs is made of entries of items, each taken at most once, in the order
\* of items
IsSubsequence(txs, items) ==
    \E f \in [1..Len(txs) -> 1..Len(items)] :
        /\ \A j \in 1..Len(txs) :
               /\ items[f[j]].obj
               /\ items[f[j]].signature = JStr(txs[j].signature)
               /\ txs[j].slot = items[f[j]].slot.n
        /\ \A j, k \in 1..Len(txs) : j < k => f[j] < f[k]

\* C13: the transactions of a history response are an order-preserving
\* subsequence of the signature list the RPC returned: no entry is
\* duplicated, reordered or invented, whichever entries were skipped; this
\* holds of the list under construction after every item as well.
C13_OrderPreservingSubsequence ==
    /\ (endpoint = "history" /\ pc \in {"hist_loop", "rpc_post", "rpc_ret"}) =>
           IsSubsequence(transactions, signatures.items)
    /\ (endpoint = "history" /\ pc = "done" /\ response.status = 200) =>
           IsSubsequence(response.list[1].transactions, signatures.items)

C13_Witness ==
    /\ endpoint = "history"
    /\ pc = "done"
    /\ response.status = 200
    /\ Len(signatures.items) = 2
    /\ Len(response.list[1].transactions) = 2
    /\ response.list[1].transactions[1].signature = "S1"
    /\ response.list[1].transactions[2].signature = "S2"

\* the stubs of the end-to-end scenario have answered: the summary handler
\* holds the balance of {value: 1420000000} and the limit-1 list
\* [{signature: "S1", blockTime: 1768000000, slot: 1}], and the count call
\* returns an array of length 37
ScenarioReplies ==
    /\ pc = "rpc_ret"
    /\ caller = "get_transaction_count"
    /\ address = ExampleAddress
    /\ balance_lamports = 1420000000
    /\ signatures = [t |-> "list", items |-> <<MkEntry("ok", 1)>>]
    /\ ret.kind = "return"
    /\ result.t = "list"
    /\ Len(result.items) = 37

\* the summary of the scenario with last_active at day-of-January d, h:m:s
ScenarioSummary(d, h, m, s) ==
    [status |-> 200, error |-> <<>>, list |-> <<>>,
     summary |-> <<[address |-> ExampleAddress,
                    balance |-> [sol |-> 1, nano |-> 420000000],
                    balance_lamports |-> 1420000000,
                    tx_count |-> 37,
                    last_active |-> <<[year |-> 2026, month |-> 1, day |-> d,
                                       hour |-> h, minute |-> m, second |-> s]>>]>>]

\* C14 as stated: in the end-to-end scenario the summary is balance 1.42,
\* balance_lamports 1420000000, tx_count 37 and last_active
\* 2026-01-10T00:26:40Z.
C14_ScenarioAsStated ==
    [][ScenarioReplies => response' = ScenarioSummary(10, 0, 26, 40)]_vars

\* C14: in the end-to-end scenario the summary is balance 1.42,
\* balance_lamports 1420000000, tx_count 37 and last_active
\* 2026-01-09T23:06:40Z, the UTC instant of unix second 1768000000.
C14_Scenario ==
    [][ScenarioReplies => response' = ScenarioSummary(9, 23, 6, 40)]_vars

C14_Witness ==
    /\ pc = "done"
    /\ endpoint = "summary"
    /\ ledger_len = 37
    /\ Len(calls) = 3
    /\ response = ScenarioSummary(9, 23, 6, 40)

\* C15: against a deterministic stub and an unchanged chain, a summary
\* request for the address of the previous summary request ends with the
\* same response (same balance, same tx_count) after the same number of
\* RPC calls: the previous request left nothing behind that changes it.
C15_SummaryIdempotent ==
    (pc = "done" /\ endpoint = "summary"
     /\ prev.endpoint = "summary" /\ prev.address = address) =>
        /\ response = prev.response
        /\ Len(calls) = prev.ncalls

C15_Witness ==
    /\ pc = "done"
    /\ endpoint = "summary"
    /\ address = ExampleAddress
    /\ prev.endpoint = "summary"
    /\ prev.address = ExampleAddress
    /\ prev.response.status = 200
    /\ response.status = 200
    /\ response.summary[1].tx_count = 37
    /\ response.summary[1].balance = [sol |-> 1, nano |-> 420000000]
    /\ Len(calls) = 3

\* invocation p behaves as a _call_rpc that runs alone does
AsIfAlone(p) ==
    /\ c_retry[p] = c_failures[p]
    /\ c_failures[p] <= c_attempts[p]
    /\ c_attempts[p] <= max_retries
    /\ (c_pc[p] = "post" => c_failures[p] < max_retries)
    /\ (c_pc[p] = "returned" => c_attempts[p] = c_failures[p] + 1)
    /\ (c_pc[p] = "raised" /\ c_failures[p] = c_attempts[p]) =>
           c_attempts[p] = max_retries

\* C16: concurrent _call_rpc invocations on the shared client do not
\* interfere: under every interleaving each counts its own failed attempts
\* only, makes the attempts and ends the way it would alone, and the
\* failures of one never use up the retries of another.
C16_NoInterference == \A p \in Procs : c_pc[p] # "idle" => AsIfAlone(p)

C16_Witness ==
    /\ max_retries = 3
    /\ c_pc[1] = "raised"
    /\ c_attempts[1] = 3
    /\ c_failures[1] = 3
    /\ c_pc[2] = "post"
    /\ c_attempts[2] = 2
    /\ c_failures[2] = 2

\* C17: when attempt k of a call is the first to succeed, after k-1 attempts
\* that ended in a timeout or a request error, the call returns at once the
\* result field of that reply, unchanged: it has made exactly k attempts,
\* k <= max_retries, and makes no attempt after it.
C17_FirstSuccessReturns ==
    /\ [][(pc = "rpc_post" /\ pc' = "rpc_ret" /\ ret'.kind = "return") =>
             /\ attempts' = failures + 1
             /\ failures' = failures
             /\ attempts' <= max_retries
             /\ result' \in Answers ]_vars
    /\ [][(pc = "rpc_ret" /\ ret.kind = "return") =>
             (attempts' = 0 /\ result' = NoResult) ]_vars
    /\ []((pc = "rpc_ret" /\ ret.kind = "return") =>
             (attempts = failures + 1 /\ rpc_errors = 0 /\ retry_count = failures))

C17_Witness ==
    /\ pc = "rpc_ret"
    /\ ret.kind = "return"
    /\ max_retries = 3
    /\ attempts = 3
    /\ failures = 2
    /\ method = "getBalance"
    /\ result = [t |-> "dict", value |-> JInt(1420000000)]

\* the logical RPC calls of a summary, in order
SummaryCalls ==
    << [method |-> "getBalance", limit |-> 0, signature |-> ""],
       [method |-> "getSignaturesForAddress", limit |-> 1, signature |-> ""],
       [method |-> "getSignaturesForAddress", limit |-> 1000, signature |-> ""] >>

IsPrefix(s, t) == Len(s) <= Len(t) /\ \A i \in 1..Len(s) : s[i] = t[i]

\* C18: a summary request issues getBalance, getSignaturesForAddress with
\* limit 1 and getSignaturesForAddress with limit 1000 in this order, each
\* only after the one before has returned; a successful summary has made
\* exactly these three calls, and after a call that failed terminally the
\* request answers 503 without issuing another call.
C18_SequentialCalls ==
    /\ [](endpoint = "summary" => IsPrefix(calls, SummaryCalls))
    /\ []((endpoint = "summary" /\ pc = "done" /\ response.status = 200) =>
              calls = SummaryCalls)
    /\ [][(endpoint = "summary" /\ Len(calls') > Len(calls)) =>
              (pc = "rpc_ret" /\ ret.kind = "return" /\ Len(calls') = Len(calls) + 1)]_vars
    /\ [][(endpoint = "summary" /\ pc = "rpc_ret" /\ ret.kind # "return") =>
              (pc' = "done" /\ calls' = calls /\ response'.status = 503)]_vars

C18_Witness ==
    /\ endpoint = "summary"
    /\ pc = "done"
    /\ response.status = 503
    /\ calls = SubSeq(SummaryCalls, 1, 2)

\* the blockTime of the most recent entry of the limit-1 lookup, if the
\* lookup returned an entry that carries one
NoBlockTime ==
    \/ Len(signatures.items) = 0
    \/ Get(signatures.items[1].blockTime) = JNull

\* C19: in a successful summary last_active is absent exactly when the
\* limit-1 lookup returned no signature or its entry carries no blockTime;
\* otherwise it is the UTC timestamp of that blockTime, whatever integer it
\* is, 0 included.
C19_LastActive ==
    (endpoint = "summary" /\ pc = "done" /\ response.status = 200) =>
        /\ (response.summary[1].last_active = NoneDT <=> NoBlockTime)
        /\ (~NoBlockTime =>
                response.summary[1].last_active =
                    timestamp_to_datetime(signatures.items[1].blockTime))

\* the getTransaction calls of the request so far
FetchCalls == {i \in 1..Len(calls) : calls[i].method = "getTransaction"}

\* C20: a history request ends after a bounded number of HTTP attempts: one
\* signature-list call, then at most one getTransaction call per returned
\* entry and none for an entry twice, each call with at most max_retries
\* attempts, so at most (1 + N) * max_retries attempts for N returned
\* entries; and the request does end, with a response or an error.
C20_BoundedAttempts ==
    /\ [](endpoint = "history" =>
            /\ attempts <= max_retries
            /\ Len(calls) <= 1 + Len(signatures.items)
            /\ total_attempts <= Len(calls) * max_retries
            /\ total_attempts <= (1 + Len(signatures.items)) * max_retries
            /\ \A i \in 1..Len(calls) :
                   calls[i].method = "getTransaction" <=> i > 1
            /\ \A i, j \in FetchCalls :
                   i # j => calls[i].signature # calls[j].signature)
    /\ [](endpoint = "history" => <>(pc = "done"))

C20_Witness ==
    /\ endpoint = "history"
    /\ pc = "done"
    /\ response.status = 200
    /\ max_retries = 3
    /\ Len(signatures.items) = 2
    /\ Len(calls) = 3
    /\ total_attempts = 9

\* 1970-01-01T00:00:00Z
Epoch == [year |-> 1970, month |-> 1, day |-> 1, hour |-> 0, minute |-> 0, second |-> 0]

\* the entry of the returned list that transaction tx was built from
EntryOf(tx) ==
    signatures.items[CHOOSE i \in 1..Len(signatures.items) :
                         /\ signatures.items[i].obj
                         /\ signatures.items[i].signature = JStr(tx.signature)]

\* tx carries the timestamp of its entry's blockTime, or the epoch
BlockTimeFromEntry(tx) ==
    LET bt == Get(EntryOf(tx).blockTime)
    IN /\ <<tx.block_time>> # NoneDT
       /\ tx.block_time = (IF bt = JNull THEN Epoch ELSE timestamp_to_datetime(bt)[1])

\* C21: every transaction of a history response has a block_time: the
\* timestamp of its entry's blockTime when the entry has one, the epoch when
\* it is missing or null; and whether an entry is kept does not depend on
\* its blockTime being there.
C21_BlockTimeDefaulted ==
    /\ [](endpoint = "history" =>
              \A j \in 1..Len(transactions) : BlockTimeFromEntry(transactions[j]))
    /\ []((endpoint = "history" /\ pc = "done" /\ response.status = 200) =>
              \A j \in 1..Len(response.list[1].transactions) :
                  BlockTimeFromEntry(response.list[1].transactions[j]))
    /\ [][(pc = "rpc_ret" /\ caller = "get_transaction_details") =>
              LET e == signatures.items[idx]
                  timed == [e EXCEPT !.blockTime = JInt(1768000000)]
              IN (Len(transactions') = Len(transactions) + 1)
                     <=> (ProcessItem(timed, get_transaction_details(ret, result)) # <<>>)]_vars

C21_Witness ==
    /\ endpoint = "history"
    /\ pc = "done"
    /\ response.status = 200
    /\ Len(signatures.items) = 2
    /\ Get(signatures.items[1].blockTime) = JNull
    /\ Len(response.list[1].transactions) = 2
    /\ response.list[1].transactions[1].signature = "S1"
    /\ response.list[1].transactions[1].block_time = Epoch
    /\ response.list[1].transactions[2].block_time # Epoch

\* int(...) of get_balance cannot convert the value it is given
BalanceNotInt ==
    /\ result.t # "null"
    /\ LET v == IF result.t = "dict" /\ result.value.t = "absent" THEN JInt(0)
                ELSE result.value
       IN v.t # "int"

\* a client method outside the per-item loop is about to raise an exception
\* that is not a SolanaRPCError: the transport raised one that _call_rpc does
\* not handle, or the result it got cannot be interpreted
NonRpcException ==
    /\ pc = "rpc_ret"
    /\ caller \in {"get_balance", "get_signatures", "get_transaction_count"}
    /\ \/ ret.kind \notin {"return", "SolanaRPCError"}
       \/ ret.kind = "return" /\ caller = "get_balance" /\ BalanceNotInt
       \/ ret.kind = "return" /\ caller = "get_transaction_count" /\ result.t = "other"

\* C22: a non-RPC exception raised inside get_balance, get_signatures or
\* get_transaction_count is converted into a SolanaRPCError: the request
\* ends there with status 503 and the RPC error body, never with 500.
C22_WrappedAsRpcError ==
    [][NonRpcException =>
          /\ pc' = "done"
          /\ response'.status = 503
          /\ response'.error[1].prefix = "Solana RPC error:"
          /\ calls' = calls]_vars

C22_Witness ==
    /\ pc = "done"
    /\ endpoint = "summary"
    /\ response.status = 503
    /\ response.error[1].msg = "Failed to fetch transaction count"
    /\ Len(calls) = 3

====
